---- MODULE Spec2Model ----
(***************************************************************************)
(* AT91 peripheral clocks (drivers/clk/at91/clk-peripheral.c).             *)
(*                                                                         *)
(* Two kinds of clock node are modelled:                                   *)
(*   - the legacy node (struct clk_peripheral), gated through the          *)
(*     PCER/PCDR/PCSR bit registers;                                       *)
(*   - the indirect node (struct clk_sam9x5_peripheral), gated and divided *)
(*     through the single PCR register under the pmc_pcr_lock spinlock.    *)
(*                                                                         *)
(* Registers are modelled by their fields, not by bit positions: the PCR   *)
(* value is a record [pid, cmd, en, div]; a PCSR bank is the set of the    *)
(* bit positions that are set.                                             *)
(***************************************************************************)
EXTENDS Integers, FiniteSets, Sequences, TLC

\* ------------------------------------------------------------------ bounds

\* Rates (unsigned long in the source) range over 0..MaxRate.
MaxRate == 17

\* ------------------------------------------------------- program constants

PERIPHERAL_ID_MIN == 2
PERIPHERAL_ID_MAX == 31
PERIPHERAL_MAX_SHIFT == 3

\* -EINVAL, the only error set_rate returns.
EINVAL == 22

\* layout->pid_mask: GENMASK(5, 0) of the sam9x5 PCR layout.
PID_MASK == 63

\* Largest value of the two-bit divider field of the PCR layout.
DIV_FIELD_MAX == 3

RateSet == 0 .. MaxRate

\* The callers. The gating operations are open to both. The rate operations
\* (recalc_rate, round_rate, set_rate) write periph->div and periph->auto_div
\* with no lock of this driver held: the common clock framework calls them
\* with its prepare mutex held, so one caller, PrepareCaller, runs them.
EnableCaller == "enable_ctx"
PrepareCaller == "prepare_ctx"
Callers == {EnableCaller, PrepareCaller}
GateOps == {"enable", "disable", "is_enabled"}

\* id < PERIPHERAL_ID_MIN: the test every gating operation starts with.
IsReservedOffByOne(id) == id < PERIPHERAL_ID_MIN - 1
IsReserved(id) == id < PERIPHERAL_ID_MIN

\* x >> s on unsigned long.
Shr(x, s) == x \div (2 ^ s)

\* PERIPHERAL_MASK(id): the bit position of 1 << (id & PERIPHERAL_ID_MAX).
PERIPHERAL_MASK(id) == id % (PERIPHERAL_ID_MAX + 1)

\* id & layout->pid_mask (the mask is of the form 2^k - 1).
PidField(id) == id % (PID_MASK + 1)

\* field_prep(layout->div_mask, val): the divider field of the value written.
\* For an absent field (mask 0) the macro shifts by ffs(0) - 1 = -1 and masks
\* the result with 0: whatever the shift gives, nothing of val is kept.
field_prep(div_mask, val) ==
    IF div_mask = 0 THEN 0 ELSE val % (DIV_FIELD_MAX + 1)

\* field_get(layout->div_mask, status): the divider field of the value read.
\* For an absent field (mask 0) the macro shifts status & 0 = 0 by
\* ffs(0) - 1 = -1: a shift of 0, which every shifter leaves 0.
field_get(div_mask, status) ==
    IF div_mask = 0 THEN 0 ELSE status.div

\* ------------------------------------------------- rate algorithms (pure)
\* An indirect node is a record [id, div, auto_div, max]: periph->id,
\* periph->div, periph->auto_div and periph->range.max.

\* Faulty variant of AutodivLoop: the loop also tests PERIPHERAL_MAX_SHIFT and
\* runs past it.
RECURSIVE AutodivLoopUnclamped(_, _, _)
AutodivLoopUnclamped(parent_rate, max, shift) ==
    IF shift <= PERIPHERAL_MAX_SHIFT /\ ~(Shr(parent_rate, shift) <= max)
    THEN AutodivLoopUnclamped(parent_rate, max, shift + 1)
    ELSE shift

\* The loop of clk_sam9x5_peripheral_autodiv: the first shift below
\* PERIPHERAL_MAX_SHIFT whose rate fits range.max, else PERIPHERAL_MAX_SHIFT.
RECURSIVE AutodivLoop(_, _, _)
AutodivLoop(parent_rate, max, shift) ==
    IF shift < PERIPHERAL_MAX_SHIFT /\ ~(Shr(parent_rate, shift) <= max)
    THEN AutodivLoop(parent_rate, max, shift + 1)
    ELSE shift

\* Faulty variant of clk_sam9x5_peripheral_autodiv: a parent rate of 0 is not told
\* apart from a known one.
autodiv_no_rate_check(p, parent_rate) ==
    IF ~p.auto_div THEN p
    ELSE [p EXCEPT !.auto_div = FALSE,
                   !.div = IF p.max # 0
                           THEN AutodivLoop(parent_rate, p.max, 0)
                           ELSE 0]

\* clk_sam9x5_peripheral_autodiv(periph), parent_rate being what
\* clk_hw_get_rate(parent) returns: the node after the call.
clk_sam9x5_peripheral_autodiv(p, parent_rate) ==
    IF ~p.auto_div THEN p
    ELSE IF p.max # 0 /\ parent_rate = 0 THEN p
    ELSE [p EXCEPT !.auto_div = FALSE,
                   !.div = IF p.max # 0
                           THEN AutodivLoop(parent_rate, p.max, 0)
                           ELSE 0]

\* First loop of round_rate: [shift, cur_rate] when it ends.
RECURSIVE RoundCeilLoop(_, _, _, _)
RoundCeilLoop(parent_rate, max, shift, cur_rate) ==
    IF shift <= PERIPHERAL_MAX_SHIFT
    THEN LET cur == Shr(parent_rate, shift)
         IN  IF cur <= max
             THEN [shift |-> shift, cur_rate |-> cur]
             ELSE RoundCeilLoop(parent_rate, max, shift + 1, cur)
    ELSE [shift |-> shift, cur_rate |-> cur_rate]

\* Faulty variant of RoundBestLoop: a candidate as near as the best so far
\* replaces it.
RECURSIVE RoundBestLoopTiesLow(_, _, _, _, _)
RoundBestLoopTiesLow(parent_rate, rate, shift, best_rate, best_diff) ==
    IF shift <= PERIPHERAL_MAX_SHIFT
    THEN LET cur_rate == Shr(parent_rate, shift)
             cur_diff == IF cur_rate < rate THEN rate - cur_rate
                                            ELSE cur_rate - rate
             better   == cur_diff <= best_diff
             nd       == IF better THEN cur_diff ELSE best_diff
             nr       == IF better THEN cur_rate ELSE best_rate
         IN  IF nd = 0 \/ cur_rate < rate
             THEN nr
             ELSE RoundBestLoopTiesLow(parent_rate, rate, shift + 1, nr, nd)
    ELSE best_rate

\* Second loop of round_rate: best_rate when it ends.
RECURSIVE RoundBestLoop(_, _, _, _, _)
RoundBestLoop(parent_rate, rate, shift, best_rate, best_diff) ==
    IF shift <= PERIPHERAL_MAX_SHIFT
    THEN LET cur_rate == Shr(parent_rate, shift)
             cur_diff == IF cur_rate < rate THEN rate - cur_rate
                                            ELSE cur_rate - rate
             better   == cur_diff < best_diff
             nd       == IF better THEN cur_diff ELSE best_diff
             nr       == IF better THEN cur_rate ELSE best_rate
         IN  IF nd = 0 \/ cur_rate < rate
             THEN nr
             ELSE RoundBestLoop(parent_rate, rate, shift + 1, nr, nd)
    ELSE best_rate

\* Faulty variant of clk_sam9x5_peripheral_round_rate: the search for the
\* ceiling shift starts at the node's divider instead of 0.
round_rate_from_div(p, rate, parent_rate) ==
    IF p.id < PERIPHERAL_ID_MIN \/ p.max = 0 THEN parent_rate
    ELSE LET c == RoundCeilLoop(parent_rate, p.max, p.div, parent_rate)
         IN  IF rate >= c.cur_rate THEN c.cur_rate
             ELSE RoundBestLoop(parent_rate, rate, c.shift,
                                c.cur_rate, c.cur_rate - rate)

\* clk_sam9x5_peripheral_round_rate(hw, rate, &parent_rate): the rate returned.
clk_sam9x5_peripheral_round_rate(p, rate, parent_rate) ==
    IF p.id < PERIPHERAL_ID_MIN \/ p.max = 0 THEN parent_rate
    ELSE LET c == RoundCeilLoop(parent_rate, p.max, 0, parent_rate)
         IN  IF rate >= c.cur_rate THEN c.cur_rate
             ELSE RoundBestLoop(parent_rate, rate, c.shift,
                                c.cur_rate, c.cur_rate - rate)

\* Faulty variant of SetRateLoop: the loop stops one shift early.
RECURSIVE SetRateLoopShort(_, _, _)
SetRateLoopShort(parent_rate, rate, shift) ==
    IF shift < PERIPHERAL_MAX_SHIFT
    THEN IF Shr(parent_rate, shift) = rate THEN shift
         ELSE SetRateLoopShort(parent_rate, rate, shift + 1)
    ELSE -1

\* Faulty variant of SetRateLoop: the shift stored is the number of rates
\* tried, one more than the shift that matched.
RECURSIVE SetRateLoopCountsFromOne(_, _, _)
SetRateLoopCountsFromOne(parent_rate, rate, shift) ==
    IF shift <= PERIPHERAL_MAX_SHIFT
    THEN IF Shr(parent_rate, shift) = rate THEN shift + 1
         ELSE SetRateLoopCountsFromOne(parent_rate, rate, shift + 1)
    ELSE -1

\* The loop of set_rate: the first shift in 0..PERIPHERAL_MAX_SHIFT with
\* parent_rate >> shift = rate, or -1 when the loop ends without a match.
RECURSIVE SetRateLoop(_, _, _)
SetRateLoop(parent_rate, rate, shift) ==
    IF shift <= PERIPHERAL_MAX_SHIFT
    THEN IF Shr(parent_rate, shift) = rate THEN shift
         ELSE SetRateLoop(parent_rate, rate, shift + 1)
    ELSE -1

\* Faulty variant of clk_sam9x5_peripheral_set_rate: the target is not held
\* against range.max.
set_rate_no_range_check(p, rate, parent_rate) ==
    IF p.id < PERIPHERAL_ID_MIN \/ p.max = 0
    THEN [ret |-> IF parent_rate = rate THEN 0 ELSE -EINVAL, periph |-> p]
    ELSE LET shift == SetRateLoop(parent_rate, rate, 0)
         IN  IF shift >= 0
             THEN [ret |-> 0,
                   periph |-> [p EXCEPT !.auto_div = FALSE, !.div = shift]]
             ELSE [ret |-> -EINVAL, periph |-> p]

\* Faulty variant of clk_sam9x5_peripheral_set_rate: auto_div is cleared
\* before the search for the shift, found or not.
set_rate_clears_flag_first(p, rate, parent_rate) ==
    IF p.id < PERIPHERAL_ID_MIN \/ p.max = 0
    THEN [ret |-> IF parent_rate = rate THEN 0 ELSE -EINVAL, periph |-> p]
    ELSE IF p.max # 0 /\ rate > p.max
    THEN [ret |-> -EINVAL, periph |-> p]
    ELSE LET shift == SetRateLoop(parent_rate, rate, 0)
         IN  IF shift >= 0
             THEN [ret |-> 0,
                   periph |-> [p EXCEPT !.auto_div = FALSE, !.div = shift]]
             ELSE [ret |-> -EINVAL,
                   periph |-> [p EXCEPT !.auto_div = FALSE]]

\* clk_sam9x5_peripheral_set_rate(hw, rate, parent_rate): the value returned
\* and the node after the call.
clk_sam9x5_peripheral_set_rate(p, rate, parent_rate) ==
    IF p.id < PERIPHERAL_ID_MIN \/ p.max = 0
    THEN [ret |-> IF parent_rate = rate THEN 0 ELSE -EINVAL, periph |-> p]
    ELSE IF p.max # 0 /\ rate > p.max
    THEN [ret |-> -EINVAL, periph |-> p]
    ELSE LET shift == SetRateLoop(parent_rate, rate, 0)
         IN  IF shift >= 0
             THEN [ret |-> 0,
                   periph |-> [p EXCEPT !.auto_div = FALSE, !.div = shift]]
             ELSE [ret |-> -EINVAL, periph |-> p]

\* ------------------------------------------------------------------ state

VARIABLES
    layout,       \* the PCR layout of the SoC: [div_mask]
    periph,       \* the indirect nodes: index -> [id, div, auto_div, max]
    pcr,          \* the PCR hardware: [pid, en, div], pid being the selected id
    lock,         \* holder of pmc_pcr_lock: a caller, or Free
    parent_rate,  \* what clk_hw_get_rate(parent) returns
    pc,           \* caller -> position in the operation it runs
    cur,          \* caller -> [op, nd]: the operation and the node it runs on
    status,       \* caller -> the PCR value regmap_read stored in its local
    ret,          \* caller -> what its operation returned: [op, nd, arg, val]
    nreg,         \* how many of the indirect nodes are registered so far
    pcsr,         \* the legacy status registers: bank -> set of bits set
    last,         \* history: legacy id -> last of "enable"/"disable" issued
    rin,          \* inputs of a rate computation: [p, rate, parent_rate]
    rout          \* its results: [round, set, periph, resolved, auto,
                  \* enabled, recalc]

vars == <<layout, periph, pcr, lock, parent_rate, pc, cur, status, ret,
          nreg, pcsr, last, rin, rout>>

\* The ids of the indirect nodes, by node index: one reserved id (below
\* PERIPHERAL_ID_MIN) and two gated ids sharing the PCR register.
PeriphIds == <<1, 2, 3>>
Periphs == DOMAIN PeriphIds

\* The ids the PCR register can select: those of the gated nodes, and id 0, which
\* the register selects out of reset.
HwIds == {0} \cup {PidField(PeriphIds[n]) :
                    n \in {m \in Periphs : PeriphIds[m] >= PERIPHERAL_ID_MIN}}

\* layout->div_mask: absent (0) or the two-bit field GENMASK(17, 16).
DivMasks == {0, 196608}

\* Rates the parent clock may run at (0: not known yet).
ParentRates == {0, MaxRate - 1}

\* range.max of the indirect nodes, by node index (0: no range).
PeriphMax == <<5, 5, 0>>

\* The target rates callers ask for: every rate a shift of the parent's rate
\* gives, and one no shift gives.
RateArgs == {Shr(MaxRate - 1, s) : s \in 0 .. PERIPHERAL_MAX_SHIFT} \cup {MaxRate}

NoOp == [op |-> "none", nd |-> 0, arg |-> 0]
NoStatus == [pid |-> 0, cmd |-> FALSE, en |-> FALSE, div |-> 0]
NoRet == [op |-> "none", nd |-> 0, arg |-> 0, val |-> 0]
Ret(o, n, a, v) == [op |-> o, nd |-> n, arg |-> a, val |-> v]

\* ------------------------------------------------- the register transport

\* regmap_read(regmap, layout->offset, &status): the PCR shows the enable and
\* divider fields of the selected id.
regmap_read(r) ==
    [pid |-> r.pid, cmd |-> FALSE, en |-> r.en[r.pid], div |-> r.div[r.pid]]

\* regmap_write(regmap, layout->offset, v): the PCR latches the id; with the
\* command bit set it also stores the enable and divider fields for that id.
regmap_write(r, v) ==
    IF v.cmd
    THEN [pid |-> v.pid,
          en  |-> [r.en  EXCEPT ![v.pid] = v.en],
          div |-> [r.div EXCEPT ![v.pid] = v.div]]
    ELSE [r EXCEPT !.pid = v.pid]

\* regmap_update_bits(regmap, layout->offset, mask, val): read, replace the
\* fields of the mask by those of val, write back.
regmap_update_bits(r, mask, val) ==
    LET orig == regmap_read(r)
        tmp  == [f \in DOMAIN orig |-> IF f \in mask THEN val[f] ELSE orig[f]]
    IN  regmap_write(r, tmp)

\* The fields layout->div_mask covers.
DivMaskFields == IF layout.div_mask = 0 THEN {} ELSE {"div"}

\* ------------------------------------------------ indirect node operations

\* The value of lock when no caller holds pmc_pcr_lock.
Free == "free"

\* Faulty variant of spin_lock_irqsave: the lock is taken without waiting for it.
spin_lock_nowait(t) == lock' = t

\* spin_lock_irqsave(periph->lock, flags): taken only when free.
spin_lock_irqsave(t) == lock = Free /\ lock' = t

\* Faulty variant of spin_unlock_irqrestore: the lock is left as it is.
spin_unlock_not_released(t) == lock' = lock

\* spin_unlock_irqrestore(periph->lock, flags).
spin_unlock_irqrestore(t) == lock' = Free

\* What each operation returns for an id below PERIPHERAL_ID_MIN.
EarlyValue(o, pr) ==
    CASE o = "enable"      -> 0
      [] o = "disable"     -> 0
      [] o = "is_enabled"  -> 1
      [] o = "recalc_rate" -> pr

\* Entry of enable, disable, is_enabled and recalc_rate on node n, called
\* with parent rate pr (recalc_rate): return at once for a reserved id, else
\* take the lock.
Entry(t, o, n, pr) ==
    /\ pc[t] = "idle"
    /\ n <= nreg
    /\ IF IsReserved(periph[n].id)
       THEN /\ pc' = [pc EXCEPT ![t] = "ret"]
            /\ ret' = [ret EXCEPT ![t] = Ret(o, n, pr, EarlyValue(o, pr))]
            /\ UNCHANGED <<lock, cur>>
       ELSE /\ spin_lock_irqsave(t)
            /\ pc' = [pc EXCEPT ![t] = "select"]
            /\ cur' = [cur EXCEPT ![t] = [op |-> o, nd |-> n, arg |-> pr]]
            /\ UNCHANGED ret
    /\ UNCHANGED <<layout, periph, pcr, parent_rate, status, pcsr, last,
                   rin, rout,
                   nreg>>

\* regmap_write(regmap, layout->offset, id & layout->pid_mask): select the id.
Select(t) ==
    /\ pc[t] = "select"
    /\ pcr' = regmap_write(pcr, [pid |-> PidField(periph[cur[t].nd].id),
                                 cmd |-> FALSE, en |-> FALSE, div |-> 0])
    /\ pc' = [pc EXCEPT ![t] = "access"]
    /\ UNCHANGED <<layout, periph, lock, parent_rate, cur, status, ret,
                   pcsr, last, rin, rout,
                   nreg>>

\* The masked update of enable: divider field, command bit and enable bit.
EnableUpdate(r, p) ==
    regmap_update_bits(r, DivMaskFields \cup {"cmd", "en"},
                       [pid |-> 0, cmd |-> TRUE, en |-> TRUE,
                        div |-> field_prep(layout.div_mask, p.div)])

\* Faulty variant of DisableUpdate: the mask covers the divider field too.
DisableUpdateClearsDiv(r) ==
    regmap_update_bits(r, {"cmd", "en", "div"},
                       [pid |-> 0, cmd |-> TRUE, en |-> FALSE, div |-> 0])

\* The masked update of disable: command bit set, enable bit cleared.
DisableUpdate(r) ==
    regmap_update_bits(r, {"cmd", "en"},
                       [pid |-> 0, cmd |-> TRUE, en |-> FALSE, div |-> 0])

\* What is_enabled returns: status & AT91_PMC_PCR_EN ? 1 : 0.
IsEnabledValue(st) == IF st.en THEN 1 ELSE 0

\* The access that follows the select, and the release of the lock right
\* after it: the masked update of enable or disable, which then return; the
\* read of is_enabled, which returns the enable bit read; the read of
\* recalc_rate, which keeps the status read and goes on to update the node.
Access(t) ==
    /\ pc[t] = "access"
    /\ CASE cur[t].op = "enable" ->
                /\ pcr' = EnableUpdate(pcr, periph[cur[t].nd])
                /\ ret' = [ret EXCEPT ![t] = Ret("enable", cur[t].nd, 0, 0)]
                /\ pc' = [pc EXCEPT ![t] = "ret"]
                /\ cur' = [cur EXCEPT ![t] = NoOp]
                /\ UNCHANGED status
         [] cur[t].op = "disable" ->
                /\ pcr' = DisableUpdate(pcr)
                /\ ret' = [ret EXCEPT ![t] = Ret("disable", cur[t].nd, 0, 0)]
                /\ pc' = [pc EXCEPT ![t] = "ret"]
                /\ cur' = [cur EXCEPT ![t] = NoOp]
                /\ UNCHANGED status
         [] cur[t].op = "is_enabled" ->
                /\ ret' = [ret EXCEPT ![t] =
                             Ret("is_enabled", cur[t].nd, 0,
                                 IsEnabledValue(regmap_read(pcr)))]
                /\ pc' = [pc EXCEPT ![t] = "ret"]
                /\ cur' = [cur EXCEPT ![t] = NoOp]
                /\ UNCHANGED <<pcr, status>>
         [] cur[t].op = "recalc_rate" ->
                /\ status' = [status EXCEPT ![t] = regmap_read(pcr)]
                /\ pc' = [pc EXCEPT ![t] = "store"]
                /\ UNCHANGED <<pcr, ret, cur>>
    /\ spin_unlock_irqrestore(t)
    /\ UNCHANGED <<layout, periph, parent_rate, pcsr, last, rin, rout,
                   nreg>>

\* Faulty variant of RecalcNode: a disabled clock re-arms the auto-division.
RecalcNodeRearm(p, st, hw_rate) ==
    IF st.en
    THEN [p EXCEPT !.div = field_get(layout.div_mask, st), !.auto_div = FALSE]
    ELSE clk_sam9x5_peripheral_autodiv(
             [p EXCEPT !.auto_div = (layout.div_mask # 0)], hw_rate)

\* Faulty variant of RecalcNode: the hardware's divider is taken only while the
\* auto-division is pending.
RecalcNodeIfAuto(p, st, hw_rate) ==
    IF st.en
    THEN IF p.auto_div
         THEN [p EXCEPT !.div = field_get(layout.div_mask, st),
                        !.auto_div = FALSE]
         ELSE p
    ELSE clk_sam9x5_peripheral_autodiv(p, hw_rate)

\* The node after recalc_rate has read st from the PCR: the hardware's divider
\* when it is enabled, else the auto-division against the parent's rate.
RecalcNode(p, st, hw_rate) ==
    IF st.en
    THEN [p EXCEPT !.div = field_get(layout.div_mask, st), !.auto_div = FALSE]
    ELSE clk_sam9x5_peripheral_autodiv(p, hw_rate)

\* The rest of recalc_rate, after the lock is released: update the node from
\* the status read and return parent_rate >> periph->div.
Store(t) ==
    /\ pc[t] = "store"
    /\ LET n == cur[t].nd
           p == RecalcNode(periph[n], status[t], parent_rate)
       IN  /\ periph' = [periph EXCEPT ![n] = p]
           /\ ret' = [ret EXCEPT ![t] =
                        Ret("recalc_rate", n, cur[t].arg,
                            Shr(cur[t].arg, p.div))]
    /\ pc' = [pc EXCEPT ![t] = "ret"]
    /\ cur' = [cur EXCEPT ![t] = NoOp]
    /\ status' = [status EXCEPT ![t] = NoStatus]
    /\ UNCHANGED <<layout, pcr, lock, parent_rate, pcsr, last, rin, rout,
                   nreg>>

\* Faulty variant of RoundRate: the ceiling shift found is kept in periph->div.
RoundRateStores(t, n, rate, pr) ==
    /\ pc[t] = "idle"
    /\ n <= nreg
    /\ pc' = [pc EXCEPT ![t] = "ret"]
    /\ ret' = [ret EXCEPT ![t] =
                 Ret("round_rate", n, 0,
                     clk_sam9x5_peripheral_round_rate(periph[n], rate, pr))]
    /\ periph' = [periph EXCEPT ![n].div = AutodivLoop(pr, periph[n].max, 0)]
    /\ UNCHANGED <<layout, pcr, lock, parent_rate, cur, status,
                   pcsr, last, rin, rout,
                   nreg>>

\* round_rate(hw, rate, &pr) on node n: no register, no lock, no node field.
RoundRate(t, n, rate, pr) ==
    /\ pc[t] = "idle"
    /\ n <= nreg
    /\ pc' = [pc EXCEPT ![t] = "ret"]
    /\ ret' = [ret EXCEPT ![t] =
                 Ret("round_rate", n, 0,
                     clk_sam9x5_peripheral_round_rate(periph[n], rate, pr))]
    /\ UNCHANGED <<layout, periph, pcr, lock, parent_rate, cur, status,
                   pcsr, last, rin, rout,
                   nreg>>

\* set_rate(hw, rate, pr) on node n: no register, no lock.
SetRate(t, n, rate, pr) ==
    /\ pc[t] = "idle"
    /\ n <= nreg
    /\ LET r == clk_sam9x5_peripheral_set_rate(periph[n], rate, pr)
       IN  /\ periph' = [periph EXCEPT ![n] = r.periph]
           /\ ret' = [ret EXCEPT ![t] = Ret("set_rate", n, 0, r.ret)]
    /\ pc' = [pc EXCEPT ![t] = "ret"]
    /\ UNCHANGED <<layout, pcr, lock, parent_rate, cur, status, pcsr, last,
                   rin, rout,
                   nreg>>

\* The caller takes the returned value and is free to call again.
Return(t) ==
    /\ pc[t] = "ret"
    /\ pc' = [pc EXCEPT ![t] = "idle"]
    /\ ret' = [ret EXCEPT ![t] = NoRet]
    /\ UNCHANGED <<layout, periph, pcr, lock, parent_rate, cur, status,
                   pcsr, last, rin, rout,
                   nreg>>

\* The parent clock changes rate (clk_hw_get_rate(parent) is not this
\* driver's to decide).
ParentRateChange(r) ==
    /\ r # parent_rate
    /\ parent_rate' = r
    /\ UNCHANGED <<layout, periph, pcr, lock, pc, cur, status, ret, pcsr,
                   last, rin, rout,
                   nreg>>

\* A node as at91_clk_register_sam9x5_peripheral sets it up before it calls
\* clk_hw_register: kzalloc'ed, div 0, auto_div set when the layout has a
\* divider field.
NewNode(id, lay, max) ==
    [id |-> id, div |-> 0, auto_div |-> (lay.div_mask # 0), max |-> max]

\* A node as at91_clk_register_sam9x5_peripheral leaves it, the parent
\* running at hw_rate: set up, then one auto-division.
RegisteredNode(id, lay, max, hw_rate) ==
    clk_sam9x5_peripheral_autodiv(NewNode(id, lay, max), hw_rate)

\* The end of at91_clk_register_sam9x5_peripheral for node n, the nodes being
\* registered one after the other: clk_hw_register has succeeded, the
\* auto-division runs, and the framework may call the node's operations.
Register(n) ==
    /\ n = nreg + 1
    /\ periph' = [periph EXCEPT ![n] =
                    clk_sam9x5_peripheral_autodiv(periph[n], parent_rate)]
    /\ nreg' = n
    /\ UNCHANGED <<layout, pcr, lock, parent_rate, pc, cur, status, ret,
                   pcsr, last, rin, rout>>

NoRin == [p |-> [id |-> 0, div |-> 0, auto_div |-> FALSE, max |-> 0],
          rate |-> 0, parent_rate |-> 0]
NoRout == [round |-> -1, set |-> -1, periph |-> NoRin.p,
           resolved |-> FALSE, auto |-> NoRin.p,
           enabled |-> FALSE, recalc |-> -1]

\* The callers at rest, no rate computation under way.
InitCallers ==
    /\ lock = Free
    /\ pc = [t \in Callers |-> "idle"]
    /\ cur = [t \in Callers |-> NoOp]
    /\ status = [t \in Callers |-> NoStatus]
    /\ ret = [t \in Callers |-> NoRet]

\* The PCR out of reset.
InitPcr ==
    pcr = [pid |-> 0, en |-> [i \in HwIds |-> FALSE],
           div |-> [i \in HwIds |-> 0]]

\* The indirect nodes all registered.
InitRegistered ==
    /\ layout \in [div_mask : DivMasks]
    /\ parent_rate \in ParentRates
    /\ periph = [n \in Periphs |->
                   RegisteredNode(PeriphIds[n], layout, PeriphMax[n],
                                  parent_rate)]
    /\ nreg = Len(PeriphIds)
    /\ InitPcr

\* ---------------------------------------------------- legacy node operations

\* The ids of the legacy nodes (at91_clk_register_peripheral refuses an id
\* above PERIPHERAL_ID_MAX): reserved ids and gated ids, the largest included.
LegacyIds == {1, 2, PERIPHERAL_ID_MAX}
GatedLegacyIds == {i \in LegacyIds : i >= PERIPHERAL_ID_MIN}

\* The register bank an id is in: AT91_PMC_PCER/PCDR/PCSR (0) or
\* AT91_PMC_PCER1/PCDR1/PCSR1 (1).
Bank(id) == IF id > PERIPHERAL_ID_MAX THEN 1 ELSE 0

\* clk_peripheral_enable(hw): one write of the id's bit to the enable
\* register, which sets that bit of the status register.
clk_peripheral_enable(t, id) ==
    /\ pc[t] = "idle"
    /\ IF IsReserved(id)
       THEN UNCHANGED <<pcsr, last>>
       ELSE /\ pcsr' = [pcsr EXCEPT ![Bank(id)] = @ \cup {PERIPHERAL_MASK(id)}]
            /\ last' = [last EXCEPT ![id] = "enable"]
    /\ pc' = [pc EXCEPT ![t] = "ret"]
    /\ ret' = [ret EXCEPT ![t] = Ret("legacy_enable", id, 0, 0)]
    /\ UNCHANGED <<layout, periph, pcr, lock, parent_rate, cur, status,
                   rin, rout,
                   nreg>>

\* Faulty variant of clk_peripheral_disable: every bit of the bank is written
\* to the disable register.
clk_peripheral_disable_bank(t, id) ==
    /\ pc[t] = "idle"
    /\ IF IsReserved(id)
       THEN UNCHANGED <<pcsr, last>>
       ELSE /\ pcsr' = [pcsr EXCEPT ![Bank(id)] = {}]
            /\ last' = [last EXCEPT ![id] = "disable"]
    /\ pc' = [pc EXCEPT ![t] = "ret"]
    /\ ret' = [ret EXCEPT ![t] = Ret("legacy_disable", id, 0, 0)]
    /\ UNCHANGED <<layout, periph, pcr, lock, parent_rate, cur, status,
                   rin, rout,
                   nreg>>

\* clk_peripheral_disable(hw): one write of the id's bit to the disable
\* register, which clears that bit of the status register.
clk_peripheral_disable(t, id) ==
    /\ pc[t] = "idle"
    /\ IF IsReserved(id)
       THEN UNCHANGED <<pcsr, last>>
       ELSE /\ pcsr' = [pcsr EXCEPT ![Bank(id)] = @ \ {PERIPHERAL_MASK(id)}]
            /\ last' = [last EXCEPT ![id] = "disable"]
    /\ pc' = [pc EXCEPT ![t] = "ret"]
    /\ ret' = [ret EXCEPT ![t] = Ret("legacy_disable", id, 0, 0)]
    /\ UNCHANGED <<layout, periph, pcr, lock, parent_rate, cur, status,
                   rin, rout,
                   nreg>>

\* Faulty variant of LegacyIsEnabledValue: the bit next to the id's is tested.
LegacyIsEnabledNextBit(sr, id) ==
    IF IsReserved(id) THEN 1
    ELSE IF PERIPHERAL_MASK(id + 1) \in sr[Bank(id)] THEN 1 ELSE 0

\* What clk_peripheral_is_enabled returns for the status registers sr.
LegacyIsEnabledValue(sr, id) ==
    IF IsReserved(id) THEN 1
    ELSE IF PERIPHERAL_MASK(id) \in sr[Bank(id)] THEN 1 ELSE 0

\* clk_peripheral_is_enabled(hw): one read of the status register.
clk_peripheral_is_enabled(t, id) ==
    /\ pc[t] = "idle"
    /\ pc' = [pc EXCEPT ![t] = "ret"]
    /\ ret' = [ret EXCEPT ![t] =
                 Ret("legacy_is_enabled", id, 0, LegacyIsEnabledValue(pcsr, id))]
    /\ UNCHANGED <<layout, periph, pcr, lock, parent_rate, cur, status,
                   pcsr, last, rin, rout,
                   nreg>>

\* ------------------------------------------------------- the specifications

\* Spec: the indirect nodes under both callers, rate operations included,
\* from the nodes set up and none registered yet.
Init ==
    /\ layout \in [div_mask : DivMasks]
    /\ parent_rate \in ParentRates
    /\ periph = [n \in Periphs |->
                   NewNode(PeriphIds[n], layout, PeriphMax[n])]
    /\ nreg = 0
    /\ InitPcr
    /\ InitCallers
    /\ pcsr = [b \in {0, 1} |-> {}]
    /\ last = [i \in LegacyIds |-> "none"]
    /\ rin = NoRin
    /\ rout = NoRout

Next ==
    \/ \E n \in Periphs : Register(n)
    \/ \E t \in Callers, o \in GateOps, n \in Periphs : Entry(t, o, n, 0)
    \/ \E n \in Periphs, pr \in ParentRates :
          Entry(PrepareCaller, "recalc_rate", n, pr)
    \/ \E t \in Callers : Select(t)
    \/ \E t \in Callers : Access(t)
    \/ Store(PrepareCaller)
    \/ \E n \in Periphs, rate \in RateArgs, pr \in ParentRates :
          RoundRate(PrepareCaller, n, rate, pr)
    \/ \E n \in Periphs, rate \in RateArgs, pr \in ParentRates :
          SetRate(PrepareCaller, n, rate, pr)
    \/ \E t \in Callers : Return(t)
    \/ \E r \in ParentRates : ParentRateChange(r)

Spec == Init /\ [][Next]_vars

\* SpecGate: the gating operations of both kinds of node, the legacy status
\* register starting with any of the gated bits set.
InitGate ==
    /\ InitRegistered
    /\ InitCallers
    /\ \E on \in SUBSET GatedLegacyIds :
          pcsr = [b \in {0, 1} |->
                    {PERIPHERAL_MASK(i) : i \in {j \in on : Bank(j) = b}}]
    /\ last = [i \in LegacyIds |-> "none"]
    /\ rin = NoRin
    /\ rout = NoRout

NextGate ==
    \/ \E t \in Callers, id \in LegacyIds : clk_peripheral_enable(t, id)
    \/ \E t \in Callers, id \in LegacyIds : clk_peripheral_disable(t, id)
    \/ \E t \in Callers, id \in LegacyIds : clk_peripheral_is_enabled(t, id)
    \/ \E t \in Callers, o \in GateOps, n \in Periphs : Entry(t, o, n, 0)
    \/ \E t \in Callers : Select(t)
    \/ \E t \in Callers : Access(t)
    \/ \E t \in Callers : Return(t)

SpecGate == InitGate /\ [][NextGate]_vars

\* SpecRate: round_rate, set_rate and the auto-division applied to drawn
\* inputs: a node as registration or a later operation leaves it, a target
\* rate, a parent rate.
RateNodes ==
    {[id |-> i, div |-> 0, auto_div |-> a, max |-> m] :
        i \in {1, 2}, a \in BOOLEAN, m \in RateSet}

InitRate ==
    /\ layout = [div_mask |-> 196608]
    /\ parent_rate = 0
    /\ periph = [n \in Periphs |->
                   RegisteredNode(PeriphIds[n], layout, PeriphMax[n], 0)]
    /\ nreg = Len(PeriphIds)
    /\ InitPcr
    /\ InitCallers
    /\ pcsr = [b \in {0, 1} |-> {}]
    /\ last = [i \in LegacyIds |-> "none"]
    /\ rin \in [p : RateNodes, rate : RateSet, parent_rate : RateSet]
    /\ rout = NoRout

\* round_rate on the drawn inputs.
ApplyRoundRate ==
    /\ rout.round = -1
    /\ rout' = [rout EXCEPT !.round =
                  clk_sam9x5_peripheral_round_rate(rin.p, rin.rate,
                                                   rin.parent_rate)]
    /\ UNCHANGED <<layout, periph, pcr, lock, parent_rate, pc, cur, status,
                   ret, pcsr, last, rin,
                   nreg>>

\* set_rate on the drawn inputs.
ApplySetRate ==
    /\ rout.set = -1
    /\ LET r == clk_sam9x5_peripheral_set_rate(rin.p, rin.rate,
                                               rin.parent_rate)
       IN  rout' = [rout EXCEPT !.set = r.ret, !.periph = r.periph]
    /\ UNCHANGED <<layout, periph, pcr, lock, parent_rate, pc, cur, status,
                   ret, pcsr, last, rin,
                   nreg>>

\* clk_sam9x5_peripheral_autodiv on the drawn node, the parent running at the
\* drawn rate.
ApplyAutodiv ==
    /\ ~rout.resolved
    /\ rout' = [rout EXCEPT !.resolved = TRUE,
                            !.auto = clk_sam9x5_peripheral_autodiv(
                                         rin.p, rin.parent_rate)]
    /\ UNCHANGED <<layout, periph, pcr, lock, parent_rate, pc, cur, status,
                   ret, pcsr, last, rin,
                   nreg>>

NextRate == ApplyRoundRate \/ ApplySetRate \/ ApplyAutodiv

SpecRate == InitRate /\ [][NextRate]_vars

\* SpecTrip: set_rate, then enable, then recalc_rate on one ranged node of
\* id 2, nothing else running on the node in between, from drawn inputs: the
\* layout, the node, the target and parent rates, and what the hardware
\* holds for the id.
TripNode == 2

\* The ranged nodes of id 2: the flag still set and the divider 0, or the
\* flag cleared and any divider.
TripNodes ==
    {[id |-> PeriphIds[TripNode], div |-> d, auto_div |-> a, max |-> m] :
        d \in 0 .. PERIPHERAL_MAX_SHIFT, a \in BOOLEAN, m \in {5, MaxRate}}

\* The word the select write puts in the PCR for an id.
SelectWord(id) ==
    [pid |-> PidField(id), cmd |-> FALSE, en |-> FALSE, div |-> 0]

InitTrip ==
    /\ layout \in [div_mask : DivMasks]
    /\ rin \in [p : TripNodes, rate : RateSet, parent_rate : RateSet]
    /\ rin.p.auto_div => (rin.p.div = 0 /\ layout.div_mask # 0)
    /\ parent_rate = rin.parent_rate
    /\ periph = [n \in Periphs |->
                   IF n = TripNode THEN rin.p
                   ELSE RegisteredNode(PeriphIds[n], layout, PeriphMax[n],
                                       parent_rate)]
    /\ nreg = Len(PeriphIds)
    /\ \E e \in BOOLEAN,
          d \in (IF layout.div_mask = 0 THEN {0} ELSE {0, DIV_FIELD_MAX}) :
          pcr = [pid |-> 0,
                 en  |-> [i \in HwIds |-> e /\ i = PeriphIds[TripNode]],
                 div |-> [i \in HwIds |->
                            IF i = PeriphIds[TripNode] THEN d ELSE 0]]
    /\ InitCallers
    /\ pcsr = [b \in {0, 1} |-> {}]
    /\ last = [i \in LegacyIds |-> "none"]
    /\ rout = NoRout

\* set_rate on the node with the drawn rates.
TripSetRate ==
    /\ rout.set = -1
    /\ LET r == clk_sam9x5_peripheral_set_rate(periph[TripNode], rin.rate,
                                               rin.parent_rate)
       IN  /\ periph' = [periph EXCEPT ![TripNode] = r.periph]
           /\ rout' = [rout EXCEPT !.set = r.ret, !.periph = r.periph]
    /\ UNCHANGED <<layout, pcr, lock, parent_rate, pc, cur, status, ret,
                   pcsr, last, rin, nreg>>

\* enable on the node after a successful set_rate: the select write and the
\* masked update, the lock taken and released around them.
TripEnable ==
    /\ rout.set = 0 /\ ~rout.enabled
    /\ lock = Free
    /\ pcr' = EnableUpdate(
                  regmap_write(pcr, SelectWord(periph[TripNode].id)),
                  periph[TripNode])
    /\ rout' = [rout EXCEPT !.enabled = TRUE]
    /\ UNCHANGED <<layout, periph, lock, parent_rate, pc, cur, status, ret,
                   pcsr, last, rin, nreg>>

\* recalc_rate on the node after the enable, with the parent rate set_rate
\* was given: the select write and the read under the lock, then the update
\* of the node and the rate returned.
TripRecalc ==
    /\ rout.enabled /\ rout.recalc = -1
    /\ lock = Free
    /\ pcr' = regmap_write(pcr, SelectWord(periph[TripNode].id))
    /\ LET p == RecalcNode(periph[TripNode], regmap_read(pcr'), parent_rate)
       IN  /\ periph' = [periph EXCEPT ![TripNode] = p]
           /\ rout' = [rout EXCEPT !.recalc = Shr(rin.parent_rate, p.div)]
    /\ UNCHANGED <<layout, lock, parent_rate, pc, cur, status, ret,
                   pcsr, last, rin, nreg>>

NextTrip == TripSetRate \/ TripEnable \/ TripRecalc

SpecTrip == InitTrip /\ [][NextTrip]_vars

\* SpecLive: the locked operations with the wait for the lock as a position
\* of its own, under fair scheduling. A caller that holds the lock runs with
\* interrupts off and spins on nothing, so each of its steps is taken (weak
\* fairness); pmc_pcr_lock is a kernel spinlock, which serves its waiters in
\* turn, so a waiter that finds the lock free again and again gets it (strong
\* fairness). Nothing obliges a caller to call, or to call again.

\* The call of enable, disable, is_enabled or recalc_rate on node n: return
\* at once for a reserved id, else go for the lock.
Invoke(t, o, n, pr) ==
    /\ pc[t] = "idle"
    /\ n <= nreg
    /\ IF IsReserved(periph[n].id)
       THEN /\ pc' = [pc EXCEPT ![t] = "ret"]
            /\ ret' = [ret EXCEPT ![t] = Ret(o, n, pr, EarlyValue(o, pr))]
            /\ UNCHANGED cur
       ELSE /\ pc' = [pc EXCEPT ![t] = "lock"]
            /\ cur' = [cur EXCEPT ![t] = [op |-> o, nd |-> n, arg |-> pr]]
            /\ UNCHANGED ret
    /\ UNCHANGED <<layout, periph, pcr, lock, parent_rate, status, pcsr,
                   last, rin, rout, nreg>>

\* spin_lock_irqsave(periph->lock, flags) returns: the caller has the lock.
Acquire(t) ==
    /\ pc[t] = "lock"
    /\ spin_lock_irqsave(t)
    /\ pc' = [pc EXCEPT ![t] = "select"]
    /\ UNCHANGED <<layout, periph, pcr, parent_rate, cur, status, ret, pcsr,
                   last, rin, rout, nreg>>

InitLive ==
    /\ InitRegistered
    /\ InitCallers
    /\ pcsr = [b \in {0, 1} |-> {}]
    /\ last = [i \in LegacyIds |-> "none"]
    /\ rin = NoRin
    /\ rout = NoRout

NextLive ==
    \/ \E t \in Callers, o \in GateOps, n \in Periphs : Invoke(t, o, n, 0)
    \/ \E n \in Periphs : Invoke(PrepareCaller, "recalc_rate", n, parent_rate)
    \/ \E t \in Callers : Acquire(t)
    \/ \E t \in Callers : Select(t)
    \/ \E t \in Callers : Access(t)
    \/ Store(PrepareCaller)
    \/ \E t \in Callers : Return(t)

FairLive ==
    /\ \A t \in Callers :
          /\ SF_vars(Acquire(t))
          /\ WF_vars(Select(t))
          /\ WF_vars(Access(t))
    /\ WF_vars(Store(PrepareCaller))

SpecLive == InitLive /\ [][NextLive]_vars /\ FairLive

\* ------------------------------------------------------------------ claims

\* The id of the node caller t operates on (t not idle).
IdOf(t) == periph[cur[t].nd].id

\* C1: under any interleaving of the locked operations of the two callers,
\* the access step of an operation on id X finds X selected in the PCR; what
\* it reads is X's enable bit and divider, and its masked update leaves the
\* enable bit and divider of every other id as they were.
C1_SelectThenAccess ==
    [][\A t \in Callers :
          pc[t] = "access" =>
             LET X == PidField(IdOf(t))
             IN  /\ pcr.pid = X
                 /\ pc'[t] # "access" =>
                      /\ \A i \in HwIds \ {X} :
                            /\ pcr'.en[i] = pcr.en[i]
                            /\ pcr'.div[i] = pcr.div[i]
                      /\ cur[t].op = "recalc_rate" =>
                            /\ status'[t].en = pcr.en[X]
                            /\ status'[t].div = pcr.div[X]
                      /\ cur[t].op = "is_enabled" =>
                            ret'[t].val = (IF pcr.en[X] THEN 1 ELSE 0)]_vars

\* C1 witness: the enable-side caller is about to access id 2, which it has
\* selected, while recalc_rate of the other caller has read id 3 and not yet
\* returned.
C1_Witness ==
    /\ pc[EnableCaller] = "access" /\ IdOf(EnableCaller) = 2
    /\ pc[PrepareCaller] = "store" /\ IdOf(PrepareCaller) = 3
    /\ pcr.pid = 2

\* The caller that takes the step, when the step is one of caller t.
Steps(t) == pc'[t] # pc[t]

\* Node n is registered in this step.
Registers(n) == nreg = n - 1 /\ nreg' = n

\* C2 as stated: a node's divider or auto-divider flag changes only in a step
\* of a caller that holds the lock, or in the node's registration.
C2_WritesUnderLock ==
    [][\A n \in Periphs :
          periph'[n] # periph[n] =>
             \/ Registers(n)
             \/ \E t \in Callers : Steps(t) /\ lock = t]_vars

\* C2 as amended: a node's divider or auto-divider flag changes only in the
\* node's registration, in the part of recalc_rate that follows the release
\* of the lock, or in set_rate, which takes no lock; the writing caller does
\* not hold the lock.
C2_WritesOutsideLock ==
    [][\A n \in Periphs :
          periph'[n] # periph[n] =>
             \/ Registers(n)
             \/ \E t \in Callers :
                /\ lock # t
                /\ \/ /\ pc[t] = "store" /\ pc'[t] = "ret"
                      /\ cur[t].op = "recalc_rate" /\ cur[t].nd = n
                   \/ /\ pc[t] = "idle" /\ pc'[t] = "ret"
                      /\ ret'[t].op = "set_rate" /\ ret'[t].nd = n]_vars

\* C2 witness: recalc_rate has returned having stored the divider 3 it read
\* from the hardware, while the other caller holds the lock.
C2_Witness ==
    /\ pc[PrepareCaller] = "ret"
    /\ ret[PrepareCaller].op = "recalc_rate"
    /\ periph[ret[PrepareCaller].nd].div = 3
    /\ lock = EnableCaller

\* C3 as stated: for a node with id >= 2 and range.max > 0, round_rate
\* returns no rate above range.max.
C3_RoundWithinMax ==
    (rout.round # -1 /\ rin.p.id >= 2 /\ rin.p.max > 0)
       => rout.round <= rin.p.max

\* Some shift in 0..3 of the parent rate gives the target rate.
SomeShiftGives(parent, target) ==
    \E sh \in 0 .. 3 : Shr(parent, sh) = target

\* C4 as stated: set_rate succeeds exactly when, with a range, some shift in
\* 0..3 of the parent rate gives the target, or, with no range, the target is
\* the parent rate; else it fails with -EINVAL.
C4_SetRateIffShift ==
    rout.set # -1 =>
       /\ rout.set = 0 <=>
             IF rin.p.max # 0
             THEN SomeShiftGives(rin.parent_rate, rin.rate)
             ELSE rin.rate = rin.parent_rate
       /\ rout.set # 0 => rout.set = -22

\* C4 as amended: set_rate succeeds exactly when, for an id >= 2 with a
\* range, the target is at most range.max and some shift in 0..3 of the
\* parent rate gives it, or, for an id < 2 or with no range, the target is
\* the parent rate; else it fails with -EINVAL.
C4_SetRateIff ==
    rout.set # -1 =>
       /\ rout.set = 0 <=>
             IF rin.p.id >= 2 /\ rin.p.max # 0
             THEN /\ rin.rate <= rin.p.max
                  /\ SomeShiftGives(rin.parent_rate, rin.rate)
             ELSE rin.rate = rin.parent_rate
       /\ rout.set # 0 => rout.set = -22

\* C4 witness: set_rate succeeded on a ranged node with the largest shift.
C4_Witness ==
    /\ rout.set = 0 /\ rin.p.id >= 2 /\ rin.p.max # 0
    /\ rin.parent_rate >= 8
    /\ rin.rate = Shr(rin.parent_rate, 3)
    /\ rout.periph.div = 3

\* C5 as stated: the rate round_rate returns is one set_rate accepts for the
\* same node and parent rate, and it is the parent rate when the id is below
\* 2 or no range is set.
C5_RoundAchievable ==
    rout.round # -1 =>
       /\ clk_sam9x5_peripheral_set_rate(rin.p, rout.round,
                                         rin.parent_rate).ret = 0
       /\ (rin.p.id < 2 \/ rin.p.max = 0) => rout.round = rin.parent_rate

\* C6: once a node's auto-divider flag is false it stays false.
C6_NeverRearms ==
    [][\A n \in Periphs :
          ~periph[n].auto_div => ~periph'[n].auto_div]_vars

\* C6 witness: recalc_rate has returned for the node of id 2, whose flag is
\* cleared and whose divider was set to 3 since registration, with the clock
\* disabled (the case in which recalc_rate runs the auto-division).
C6_Witness ==
    /\ layout.div_mask # 0
    /\ pc[PrepareCaller] = "ret"
    /\ ret[PrepareCaller].op = "recalc_rate"
    /\ periph[ret[PrepareCaller].nd].id = 2
    /\ ~periph[ret[PrepareCaller].nd].auto_div
    /\ periph[ret[PrepareCaller].nd].div = 3
    /\ ~pcr.en[2]

\* The auto-division runs on node n in this step: at the node's
\* registration, or in the tail of a recalc_rate whose status read showed the
\* clock disabled.
Resolves(n) ==
    \/ Registers(n)
    \/ \E t \in Callers :
          /\ pc[t] = "store" /\ pc'[t] = "ret"
          /\ cur[t].nd = n /\ ~status[t].en

\* C7: for a node with the flag set and a maximum rate, an auto-division
\* while the parent rate is 0 changes neither flag nor divider; one with a
\* nonzero parent rate clears the flag and stores a divider in 0..3; and an
\* auto-division on a node whose flag is clear changes nothing.
C7_ResolvesOnce ==
    [][\A n \in Periphs :
          Resolves(n) =>
             /\ (periph[n].auto_div /\ periph[n].max # 0 /\ parent_rate = 0)
                   => periph'[n] = periph[n]
             /\ (periph[n].auto_div /\ periph[n].max # 0 /\ parent_rate # 0)
                   => /\ ~periph'[n].auto_div
                      /\ periph'[n].div \in 0 .. 3
             /\ ~periph[n].auto_div => periph'[n] = periph[n]]_vars

\* C7 witness: recalc_rate has returned for a node with a maximum rate whose
\* flag is still set: its auto-division ran while the parent rate was 0.
C7_Witness ==
    /\ pc[PrepareCaller] = "ret"
    /\ ret[PrepareCaller].op = "recalc_rate"
    /\ periph[ret[PrepareCaller].nd].id >= 2
    /\ periph[ret[PrepareCaller].nd].max # 0
    /\ periph[ret[PrepareCaller].nd].auto_div

\* C8: when recalc_rate on an id >= 2 has read the clock as enabled, it
\* returns with the flag clear and the parent rate shifted by the node's
\* divider, which, the layout having a divider field, is the field read.
C8_RecalcTakesHardware ==
    [][\A t \in Callers, n \in Periphs :
          (/\ pc[t] = "store" /\ pc'[t] = "ret"
           /\ cur[t].nd = n /\ status[t].en) =>
             /\ layout.div_mask # 0 => periph'[n].div = status[t].div
             /\ ~periph'[n].auto_div
             /\ ret'[t].op = "recalc_rate"
             /\ ret'[t].val = Shr(cur[t].arg, periph'[n].div)]_vars

\* C8 witness: recalc_rate read divider 2 from the enabled clock of a node
\* whose own divider was another, and returned the parent rate shifted by 2.
C8_Witness ==
    /\ pc[PrepareCaller] = "ret"
    /\ ret[PrepareCaller].op = "recalc_rate"
    /\ ret[PrepareCaller].arg # 0
    /\ ret[PrepareCaller].val = Shr(ret[PrepareCaller].arg, 2)
    /\ periph[ret[PrepareCaller].nd].div = 2
    /\ pcr.div[periph[ret[PrepareCaller].nd].id] = 2
    /\ pcr.en[periph[ret[PrepareCaller].nd].id]

\* C9: for a legacy node with id in 2..31, is_enabled returns 1 when the
\* last of enable and disable issued for the id was enable, and 0 when it was
\* disable.
C9_LegacyEnableThenStatus ==
    [][\A t \in Callers :
          (/\ pc[t] = "idle" /\ pc'[t] = "ret"
           /\ ret'[t].op = "legacy_is_enabled"
           /\ ret'[t].nd >= 2 /\ ret'[t].nd <= 31) =>
             /\ last[ret'[t].nd] = "enable" => ret'[t].val = 1
             /\ last[ret'[t].nd] = "disable" => ret'[t].val = 0]_vars

\* C9 witness: is_enabled has returned 0 for id 31 after its disable, while
\* id 2 was enabled last and its status bit is set.
C9_Witness ==
    /\ pc[PrepareCaller] = "ret"
    /\ ret[PrepareCaller] = Ret("legacy_is_enabled", 31, 0, 0)
    /\ last[31] = "disable"
    /\ last[2] = "enable"
    /\ 2 \in pcsr[0]

\* The call caller t makes in this step is a gating operation on a node of
\* id below 2, of either kind.
CallsReserved(t) ==
    /\ pc[t] = "idle" /\ pc'[t] # "idle"
    /\ LET c == IF pc'[t] = "ret" THEN ret'[t] ELSE cur'[t]
       IN  \/ /\ c.op \in {"enable", "disable", "is_enabled"}
              /\ periph[c.nd].id < 2
           \/ /\ c.op \in {"legacy_enable", "legacy_disable",
                           "legacy_is_enabled"}
              /\ c.nd < 2

\* C10: enable, disable and is_enabled on a node of id below 2, of either
\* kind, return in the same step, leaving the lock, the PCR, the legacy
\* status registers and the nodes as they were; enable returns 0 and
\* is_enabled returns 1.
C10_ReservedIdsUntouched ==
    [][\A t \in Callers :
          CallsReserved(t) =>
             /\ pc'[t] = "ret"
             /\ UNCHANGED <<lock, pcr, pcsr, periph, status, cur, nreg>>
             /\ ret'[t].op \in {"enable", "legacy_enable"} => ret'[t].val = 0
             /\ ret'[t].op \in {"is_enabled", "legacy_is_enabled"}
                   => ret'[t].val = 1]_vars

\* C10 witness: enable on the indirect node of id 1 has returned 0 and
\* is_enabled on the legacy node of id 1 has returned 1, no status bit set.
C10_Witness ==
    /\ pc[EnableCaller] = "ret"
    /\ ret[EnableCaller].op = "enable"
    /\ periph[ret[EnableCaller].nd].id = 1
    /\ ret[EnableCaller].val = 0
    /\ ret[PrepareCaller] = Ret("legacy_is_enabled", 1, 0, 1)
    /\ pcsr[0] = {}

\* Caller t calls round_rate in this step.
RoundRateStep(t) ==
    pc[t] = "idle" /\ pc'[t] = "ret" /\ ret'[t].op = "round_rate"

\* C11: a round_rate call changes no node field, no register and not the
\* lock, and what it returns is what it computes from the node's id and
\* range and its arguments; and no step of any operation changes what
\* round_rate returns on a node for given target and parent rates, so a
\* repeated call returns the same value whatever ran in between.
C11_RoundRateIdempotent ==
    [][/\ \A t \in Callers :
             RoundRateStep(t) =>
                /\ UNCHANGED <<periph, pcr, pcsr, lock, status, cur, nreg>>
                /\ \E rate \in RateArgs, pr \in ParentRates :
                      ret'[t].val =
                         clk_sam9x5_peripheral_round_rate(
                             periph[ret'[t].nd], rate, pr)
       /\ periph' # periph =>
             \A n \in Periphs, rate \in RateArgs, pr \in ParentRates :
                clk_sam9x5_peripheral_round_rate(periph'[n], rate, pr)
                   = clk_sam9x5_peripheral_round_rate(periph[n], rate, pr)]_vars

\* C11 witness: round_rate has returned 4 on the ranged node of id 2 whose
\* divider set_rate or recalc_rate has moved to 3 since registration, the
\* clock being enabled.
C11_Witness ==
    /\ pc[PrepareCaller] = "ret"
    /\ ret[PrepareCaller].op = "round_rate"
    /\ periph[ret[PrepareCaller].nd].id = 2
    /\ periph[ret[PrepareCaller].nd].div = 3
    /\ ret[PrepareCaller].val = 4
    /\ pcr.en[2]

\* The shifts of 0..3 whose rate is within max.
FitShifts(parent, max) == {sh \in 0 .. 3 : Shr(parent, sh) <= max}

\* The ceiling shift: the smallest of them.
CeilShift(parent, max) ==
    CHOOSE c \in FitShifts(parent, max) :
       \A d \in FitShifts(parent, max) : c <= d

\* |a - b|.
Dist(a, b) == IF a < b THEN b - a ELSE a - b

\* The shift of c..3 whose rate is nearest to target, the smaller shift on
\* a tie.
NearestShift(parent, target, c) ==
    CHOOSE sh \in c .. 3 :
       \A u \in c .. 3 :
          \/ Dist(Shr(parent, sh), target) < Dist(Shr(parent, u), target)
          \/ /\ Dist(Shr(parent, sh), target) = Dist(Shr(parent, u), target)
             /\ sh <= u

\* C12: for an id >= 2 with a range, some shift of 0..3 being within it and
\* c being the ceiling shift: round_rate returns parent >> c when the target
\* is at least that, and otherwise parent >> s for the shift s of c..3
\* nearest to the target, the smaller shift on a tie.
C12_RoundNearest ==
    (/\ rout.round # -1 /\ rin.p.id >= 2 /\ rin.p.max # 0
     /\ FitShifts(rin.parent_rate, rin.p.max) # {}) =>
       LET c == CeilShift(rin.parent_rate, rin.p.max)
       IN  IF rin.rate >= Shr(rin.parent_rate, c)
           THEN rout.round = Shr(rin.parent_rate, c)
           ELSE rout.round =
                   Shr(rin.parent_rate,
                       NearestShift(rin.parent_rate, rin.rate, c))

\* C12 witness: parent 16 and range 10 give the ceiling shift 1; the target
\* 6 is as far from 8 as from 4, and round_rate returned 8.
C12_Witness ==
    /\ rin.p.id = 2 /\ rin.p.max = 10
    /\ rin.parent_rate = 16 /\ rin.rate = 6
    /\ rout.round = 8

\* C13: the auto-division on a node with the flag set and a range, the
\* parent rate not 0, clears the flag and stores the smallest shift of 0..3
\* whose rate is within the range, or 3 when no shift of 0..3 is.
C13_AutodivSmallestShift ==
    (/\ rout.resolved /\ rin.p.auto_div /\ rin.p.max # 0
     /\ rin.parent_rate # 0) =>
       /\ ~rout.auto.auto_div
       /\ rout.auto.div =
             IF FitShifts(rin.parent_rate, rin.p.max) # {}
             THEN CeilShift(rin.parent_rate, rin.p.max)
             ELSE 3

\* C13 witness: parent 16 and range 1, which no shift of 0..3 meets: the
\* auto-division has stored 3 and cleared the flag.
C13_Witness ==
    /\ rout.resolved /\ rin.p.auto_div
    /\ rin.p.max = 1 /\ rin.parent_rate = 16
    /\ rout.auto.div = 3 /\ ~rout.auto.auto_div

\* C14: for an id >= 2 with a range, set_rate returns -EINVAL for a target
\* above range.max, and the divider a successful set_rate stores gives a
\* rate within range.max.
C14_SetRateWithinMax ==
    (rout.set # -1 /\ rin.p.id >= 2 /\ rin.p.max # 0) =>
       /\ rin.rate > rin.p.max => rout.set = -EINVAL
       /\ rout.set = 0 =>
             Shr(rin.parent_rate, rout.periph.div) <= rin.p.max

\* C14 witness: with parent 16 and range 5, set_rate to 4 has succeeded and
\* stored the divider 2.
C14_Witness ==
    /\ rin.p.id = 2 /\ rin.p.max = 5
    /\ rin.parent_rate = 16 /\ rin.rate = 4
    /\ rout.set = 0 /\ rout.periph.div = 2

\* C15: the access step of disable on id X >= 2 clears X's enable bit and
\* leaves X's divider field, the enable bits and divider fields of every
\* other id and every node's divider and flag as they were; an is_enabled
\* on X that selects and reads the register as the step leaves it returns 0.
C15_DisableClearsOnlyEnable ==
    [][\A t \in Callers :
          (pc[t] = "access" /\ pc'[t] # "access" /\ cur[t].op = "disable") =>
             LET X == PidField(IdOf(t))
             IN  /\ IdOf(t) >= 2
                 /\ ~pcr'.en[X]
                 /\ pcr'.div = pcr.div
                 /\ \A i \in HwIds \ {X} : pcr'.en[i] = pcr.en[i]
                 /\ periph' = periph
                 /\ IsEnabledValue(
                        regmap_read(
                           regmap_write(pcr', [pid |-> X, cmd |-> FALSE,
                                               en |-> FALSE, div |-> 0]))) = 0
                 /\ ret'[t] = Ret("disable", cur[t].nd, 0, 0)]_vars

\* C15 witness: disable on id 2 has returned; the hardware holds the divider
\* 3 for id 2, its enable bit is clear, and id 3 is still enabled.
C15_Witness ==
    /\ pc[EnableCaller] = "ret"
    /\ ret[EnableCaller].op = "disable"
    /\ periph[ret[EnableCaller].nd].id = 2
    /\ pcr.div[2] = 3
    /\ ~pcr.en[2]
    /\ pcr.en[3]

\* Caller t calls set_rate in this step.
SetRateStep(t) ==
    pc[t] = "idle" /\ pc'[t] = "ret" /\ ret'[t].op = "set_rate"

\* C16: a set_rate call that fails returns -EINVAL and leaves every node's
\* divider and flag as they were; and a set_rate call, failed or not, is one
\* step that leaves the PCR, the lock and every caller's status read as they
\* were and changes no node but its own.
C16_FailedSetRateNoEffect ==
    [][\A t \in Callers :
          SetRateStep(t) =>
             /\ ret'[t].val # 0 =>
                   /\ ret'[t].val = -EINVAL
                   /\ periph' = periph
             /\ UNCHANGED <<pcr, lock, status, cur, pcsr>>
             /\ \A n \in Periphs \ {ret'[t].nd} :
                   periph'[n] = periph[n]]_vars

\* C16 witness: set_rate has failed on the ranged node of id 2, whose flag is
\* still set and divider still 0, while the other caller holds the lock.
C16_Witness ==
    /\ pc[PrepareCaller] = "ret"
    /\ ret[PrepareCaller].op = "set_rate"
    /\ ret[PrepareCaller].val = -EINVAL
    /\ periph[ret[PrepareCaller].nd].id = 2
    /\ periph[ret[PrepareCaller].nd].auto_div
    /\ periph[ret[PrepareCaller].nd].div = 0
    /\ lock = EnableCaller

\* Caller t calls an operation of a legacy node in this step.
LegacyStep(t) ==
    /\ pc[t] = "idle" /\ pc'[t] = "ret"
    /\ ret'[t].op \in {"legacy_enable", "legacy_disable", "legacy_is_enabled"}

\* The status bit of legacy id i in the status registers sr.
StatusBit(sr, i) == PERIPHERAL_MASK(i) \in sr[Bank(i)]

\* C17: an operation of a legacy node is one step, whoever holds the lock,
\* and leaves the lock and the PCR as they were; is_enabled changes no status
\* bit; enable and disable of an id X >= 2 set and clear X's status bit and
\* change that of no other id; and after every step the status bit of every
\* id is set when the last of enable and disable issued for it was enable,
\* clear when it was disable.
C17_LegacyNoLock ==
    [][/\ \A t \in Callers :
             LegacyStep(t) =>
                LET X == ret'[t].nd
                IN  /\ UNCHANGED <<lock, pcr, periph, cur, status>>
                    /\ \A b \in {0, 1}, i \in 0 .. PERIPHERAL_ID_MAX :
                          (b # Bank(X) \/ i # PERIPHERAL_MASK(X)) =>
                             (i \in pcsr'[b] <=> i \in pcsr[b])
                    /\ ret'[t].op = "legacy_is_enabled" => pcsr' = pcsr
                    /\ (ret'[t].op = "legacy_enable" /\ X >= 2)
                          => StatusBit(pcsr', X)
                    /\ (ret'[t].op = "legacy_disable" /\ X >= 2)
                          => ~StatusBit(pcsr', X)
       /\ \A Y \in GatedLegacyIds :
             /\ last'[Y] = "enable" => StatusBit(pcsr', Y)
             /\ last'[Y] = "disable" => ~StatusBit(pcsr', Y)]_vars

\* C17 witness: disable on the legacy id 31 has returned while the other
\* caller holds the lock; the status bit of id 31 is clear and that of id 2,
\* enabled last, is set.
C17_Witness ==
    /\ pc[PrepareCaller] = "ret"
    /\ ret[PrepareCaller] = Ret("legacy_disable", 31, 0, 0)
    /\ lock = EnableCaller
    /\ last[31] = "disable" /\ ~StatusBit(pcsr, 31)
    /\ last[2] = "enable" /\ StatusBit(pcsr, 2)

\* C18 as stated: for a ranged node of id >= 2, after a successful set_rate
\* and an enable the hardware holds the shift set_rate chose in the id's
\* divider field with the enable bit set, and the recalc_rate that follows,
\* with the same parent rate, returns the target.
C18_RoundTrip ==
    /\ rout.enabled =>
          /\ pcr.en[PeriphIds[TripNode]]
          /\ pcr.div[PeriphIds[TripNode]] = rout.periph.div
    /\ rout.recalc # -1 => rout.recalc = rin.rate

\* C19: in every reachable state the divider of every indirect node is one of
\* 0, 1, 2, 3, and it is 0 as long as the node is not registered.
C19_DivInRange ==
    \A n \in Periphs :
       /\ periph[n].div \in 0 .. 3
       /\ n > nreg => periph[n].div = 0

\* C19 witness: set_rate has stored the divider 3 in the node of id 2 while
\* the hardware, enabled, still holds the divider 2 the auto-division chose,
\* and the last node is not registered yet.
C19_Witness ==
    /\ pc[PrepareCaller] = "ret"
    /\ ret[PrepareCaller].op = "set_rate"
    /\ ret[PrepareCaller].val = 0
    /\ periph[ret[PrepareCaller].nd].id = 2
    /\ periph[ret[PrepareCaller].nd].div = 3
    /\ pcr.en[2] /\ pcr.div[2] = 2
    /\ nreg < Len(PeriphIds)

\* Caller t has called an operation that has not returned yet.
InFlight(t) == pc[t] \in {"lock", "select", "access", "store"}

\* The lock is held exactly by a caller between its acquisition and the end
\* of its access; with no operation in flight it is free.
LockDiscipline ==
    /\ \A t \in Callers : lock = t <=> pc[t] \in {"select", "access"}
    /\ (\A t \in Callers : ~InFlight(t)) => lock = Free

\* The steps of a locked operation of caller t: the lock is taken once, from
\* the wait for it and only when free; the holder's first step is the one
\* select write, its second the one read or masked update, which releases
\* the lock; what follows the release touches neither lock nor register.
LockedSteps(t) ==
    /\ (lock # t /\ lock' = t) =>
          /\ lock = Free
          /\ pc[t] = "lock" /\ pc'[t] = "select"
          /\ pcr' = pcr
    /\ (pc[t] = "select" /\ Steps(t)) =>
          /\ pc'[t] = "access" /\ lock' = t
          /\ pcr' = regmap_write(pcr, SelectWord(IdOf(t)))
    /\ (pc[t] = "access" /\ Steps(t)) =>
          /\ pc'[t] \in {"ret", "store"} /\ lock' = Free
          /\ pcr'.pid = pcr.pid
          /\ cur[t].op \in {"is_enabled", "recalc_rate"} => pcr' = pcr
    /\ (pc[t] = "store" /\ Steps(t)) =>
          /\ pc'[t] = "ret" /\ lock' = lock /\ pcr' = pcr

\* C20: the lock discipline holds in every state, every step of a locked
\* operation is as LockedSteps says, and under fair scheduling every
\* operation in flight returns.
C20_LockedOpsComplete ==
    /\ []LockDiscipline
    /\ [][\A t \in Callers : LockedSteps(t)]_vars
    /\ \A t \in Callers : InFlight(t) ~> ~InFlight(t)

\* C20 witness: one caller waits for the lock while the other, holding it,
\* has selected id 3 and is about to access the register.
C20_Witness ==
    /\ pc[PrepareCaller] = "lock"
    /\ pc[EnableCaller] = "access" /\ IdOf(EnableCaller) = 3
    /\ lock = EnableCaller
    /\ pcr.pid = 3

====
